---- MODULE Spec2Model ----
(***************************************************************************)
(* Model of specgrid/fitmultinest.py: the prior transform, the chi-square  *)
(* likelihood, the FitMultinest constructor and run method, and the        *)
(* set_stdout_parent context manager.                                      *)
(*                                                                         *)
(* Numbers: cube coordinates and prior outputs are exact multiples of      *)
(* 1/CubeScale and are stored multiplied by CubeScale.  The likelihood is  *)
(* computed in exact rational arithmetic (numerator/denominator pairs);    *)
(* IEEE rounding of numpy's float64 is outside the model.                  *)
(***************************************************************************)
EXTENDS Integers, Sequences, FiniteSets, TLC

VARIABLES
  \* ---- FitMultinest: constructor arguments, object, files, run position
  model_parameters,  \* model_star.parameters (a list of names)
  arg_priors,        \* the priors dict, as its keys in iteration order
  arg_likelihood,    \* the likelihood argument: "None" or "custom"
  ctor,              \* "pending", "ok" or the exception __init__ raised
  obj,               \* the attributes of the FitMultinest object
  files,             \* basename+'params.json' and basename+'stats.dat'
  pc,                \* position inside run: "idle" when no call is active
  outcome,           \* how the last call of run ended
  runs,              \* number of calls of run made so far
  no_plots,          \* the no_plots argument of the current call
  runLog,            \* steps taken by the current call of run, in order
  handed,            \* likelihood callback handed to pymultinest.run
  pre,               \* the object's attributes when the current call began
  \* ---- PriorCollections.prior_transform: the last call
  cubeIn,            \* cube as passed in
  cube,              \* cube after the call (modified in place)
  pt_nparam,         \* the nparam argument
  pt_exc,            \* "nocall", "none" or the exception raised
  \* ---- Likelihood.__call__: the bound spectrum and the last call
  lk_flux,           \* self.data.flux.value
  lk_unc,            \* self.data.uncertainty.value
  lk_model,          \* m.flux.value returned by model.evaluate
  lk_ret,            \* the returned value as a fraction [n, d], d > 0
  \* ---- set_stdout_parent: shared state and per-thread position
  parent_header,     \* sys.stdout.parent_header
  stdout_lock,       \* holder of stdout_lock, 0 when free
  tpc,               \* per-thread position inside the context manager
  save_parent,       \* per-thread local save_parent
  enters             \* per-thread number of times the context was entered

fitVars == <<model_parameters, arg_priors, arg_likelihood, ctor, obj, files,
             pc, outcome, runs, no_plots, runLog, handed, pre>>
ptVars == <<cubeIn, cube, pt_nparam, pt_exc>>
lkVars == <<lk_flux, lk_unc, lk_model, lk_ret>>
thVars == <<parent_header, stdout_lock, tpc, save_parent, enters>>
vars == <<fitVars, ptVars, lkVars, thVars>>

----------------------------------------------------------------------------
\* Bounds of the model

MaxPriors == 3      \* largest priors dict
MaxRuns == 2        \* calls of run per object
MaxModes == 2       \* modes in a statistics artifact
MaxCube == 3        \* longest cube handed to prior_transform
NPoints == 2        \* points of the observed spectrum
MaxFlux == 2        \* fluxes range over 0..MaxFlux
MaxUnc == 2         \* uncertainties range over 1..MaxUnc
NThreads == 2       \* threads using set_stdout_parent
MaxEnters == 2      \* times each thread enters the context

----------------------------------------------------------------------------
\* Helpers over sequences

Range(s) == {s[i] : i \in 1..Len(s)}

Min(a, b) == IF a <= b THEN a ELSE b

\* all sequences over S of length at most n
RECURSIVE SeqsUpTo(_, _)
SeqsUpTo(S, n) ==
  IF n = 0 THEN {<<>>}
  ELSE LET shorter == SeqsUpTo(S, n - 1)
       IN shorter \cup {Append(s, x) : s \in shorter, x \in S}

NoRepeat(s) == \A i, j \in 1..Len(s) : i # j => s[i] # s[j]

----------------------------------------------------------------------------
\* Attribute values: None, a missing attribute, or a value

NoneV == [tag |-> "None", val |-> <<>>]
AbsentV == [tag |-> "Absent", val |-> <<>>]
Val(v) == [tag |-> "val", val |-> v]
Unset(f) == f.tag \in {"None", "Absent"}
Populated(f) == f.tag = "val"

----------------------------------------------------------------------------
\* The prior classes

CubeScale == 2

UniformPrior(lbound, ubound) == [family |-> "uniform", a |-> lbound, b |-> ubound]
FixedPrior(v) == [family |-> "fixed", a |-> v, b |-> v]

\* prior.__call__(cube); x and the result are scaled by CubeScale
PriorCall(p, x) ==
  IF p.family = "uniform" THEN x * (p.b - p.a) + p.a * CubeScale
  ELSE p.a * CubeScale

\* the names a priors dict may use, and the prior each name is given
KeyUniverse == {"teff", "logg", "feh", "vrot"}

PriorTable ==
  [k \in KeyUniverse |->
     CASE k = "teff" -> UniformPrior(0, 10)
       [] k = "logg" -> UniformPrior(2, 5)
       [] k = "feh" -> FixedPrior(7)
       [] OTHER -> UniformPrior(0, 1)]

ModelParameterLists == {<<"teff", "logg", "feh">>, <<"feh", "teff", "logg">>}

----------------------------------------------------------------------------
\* FitMultinest.__init__

\* list.index: position of the first occurrence (0 when Python raises ValueError)
ListIndex(lst, key) ==
  IF key \in Range(lst)
  THEN CHOOSE i \in 1..Len(lst) : lst[i] = key /\ \A j \in 1..(i - 1) : lst[j] # key
  ELSE 0

\* insert key into the sorted list s after every element whose sort key is <= its own
RECURSIVE InsertSorted(_, _, _)
InsertSorted(s, key, lst) ==
  IF s = <<>> THEN <<key>>
  ELSE IF ListIndex(lst, Head(s)) <= ListIndex(lst, key)
       THEN <<Head(s)>> \o InsertSorted(Tail(s), key, lst)
       ELSE <<key>> \o s

\* a constructor that keeps the dict's iteration order
KeepDictOrder(keys, lst) == keys

\* sorted(keys, key=lambda key: lst.index(key)), a stable sort
RECURSIVE SortedByIndex(_, _)
SortedByIndex(keys, lst) ==
  IF keys = <<>> THEN <<>>
  ELSE InsertSorted(SortedByIndex(SubSeq(keys, 1, Len(keys) - 1), lst),
                    keys[Len(keys)], lst)

\* a constructor that skips the lookup of unknown keys
InitNeverRaises(keys, lst) == FALSE

\* the key function is called on every key; one ValueError aborts __init__
InitRaises(keys, lst) == \E i \in 1..Len(keys) : keys[i] \notin Range(lst)

\* the attributes __init__ leaves on the object
NewObject(keys, lst, likelihood) ==
  LET names == SortedByIndex(keys, lst)
  IN [parameter_names |-> names,
      priors |-> [i \in 1..Len(names) |-> [key |-> names[i], prior |-> PriorTable[names[i]]]],
      n_params |-> Len(names),
      likelihood |-> IF likelihood = "None"
                     THEN [kind |-> "default", parameter_names |-> names]
                     ELSE [kind |-> "Absent", parameter_names |-> <<>>],
      fit_mean |-> NoneV,
      mean |-> AbsentV,
      sigma |-> NoneV,
      evidence |-> NoneV,
      sigma1 |-> NoneV,
      sigma3 |-> NoneV,
      analyzer |-> NoneV,
      stats |-> AbsentV]

NoObject == NewObject(<<>>, <<>>, "custom")

NoFiles == [params |-> <<>>, stats |-> <<>>]

----------------------------------------------------------------------------
\* The statistics artifact read by Analyzer.get_stats

Evidences == {-12, -7}

ModeOf(j, n) == [mean |-> [i \in 1..n |-> 10 * j + i], sigma |-> [i \in 1..n |-> 100 * j + i]]
MarginalOf(i) == [s1 |-> <<10 * i + 4, 10 * i + 6>>, s3 |-> <<10 * i + 2, 10 * i + 8>>]

StatsArtifact(nModes, nMarg, ev, n) ==
  [modes |-> [j \in 1..nModes |-> ModeOf(j, n)],
   evidence |-> ev,
   marginals |-> [i \in 1..nMarg |-> MarginalOf(i)]]

\* what the engine may leave as basename+'stats.dat' for an n-parameter fit
StatsFiles(n) ==
  {<<>>} \cup
  {<<StatsArtifact(m, k, e, n)>> :
     m \in 0..MaxModes, k \in {j \in {n - 1, n} : j >= 0}, e \in Evidences}

\* a summary that promotes the last mode instead of the first
SummarizeLastMode(o, s) ==
  LET k == Len(s.modes)
      o1 == [o EXCEPT !.stats = Val(<<s>>)]
      o2 == [o1 EXCEPT !.mean = Val(s.modes[k].mean),
                       !.sigma = Val(s.modes[k].sigma),
                       !.evidence = Val(<<s.evidence>>)]
      o3 == [o2 EXCEPT !.sigma1 = Val([i \in 1..o.n_params |-> s.marginals[i].s1]),
                       !.sigma3 = Val([i \in 1..o.n_params |-> s.marginals[i].s3])]
  IN IF k = 0 THEN [obj |-> o1, exc |-> "IndexError"]
     ELSE IF Len(s.marginals) < o.n_params THEN [obj |-> o2, exc |-> "IndexError"]
     ELSE [obj |-> o3, exc |-> "none"]

\* lines 229-243 of run: the attributes after summarizing s, and the exception
Summarize(o, s) ==
  LET o1 == [o EXCEPT !.stats = Val(<<s>>)]
      o2 == [o1 EXCEPT !.mean = Val(s.modes[1].mean),
                       !.sigma = Val(s.modes[1].sigma),
                       !.evidence = Val(<<s.evidence>>)]
      o3 == [o2 EXCEPT !.sigma1 = Val([i \in 1..o.n_params |-> s.marginals[i].s1]),
                       !.sigma3 = Val([i \in 1..o.n_params |-> s.marginals[i].s3])]
  IN IF Len(s.modes) = 0 THEN [obj |-> o1, exc |-> "IndexError"]
     ELSE IF Len(s.marginals) < o.n_params THEN [obj |-> o2, exc |-> "IndexError"]
     ELSE [obj |-> o3, exc |-> "none"]

----------------------------------------------------------------------------
\* Initial states of the parts

FitIdle ==
  /\ model_parameters = <<>>
  /\ arg_priors = <<>>
  /\ arg_likelihood = "None"
  /\ ctor = "unused"
  /\ obj = NoObject
  /\ files = NoFiles
  /\ pc = "idle"
  /\ outcome = "none"
  /\ runs = 0
  /\ no_plots = FALSE
  /\ runLog = <<>>
  /\ handed = "none"
  /\ pre = NoObject

FitInit ==
  /\ model_parameters \in ModelParameterLists
  /\ arg_priors \in {s \in SeqsUpTo(KeyUniverse, MaxPriors) : NoRepeat(s)}
  /\ arg_likelihood \in {"None", "custom"}
  /\ ctor = "pending"
  /\ obj = NoObject
  /\ files = NoFiles
  /\ pc = "idle"
  /\ outcome = "none"
  /\ runs = 0
  /\ no_plots = FALSE
  /\ runLog = <<>>
  /\ handed = "none"
  /\ pre = NoObject

PtIdle ==
  /\ cubeIn = <<>>
  /\ cube = <<>>
  /\ pt_nparam = 0
  /\ pt_exc = "nocall"

LkIdle ==
  /\ lk_flux = <<>>
  /\ lk_unc = <<>>
  /\ lk_model = <<>>
  /\ lk_ret = [n |-> 0, d |-> 1]

Threads == 1..NThreads

ThIdle ==
  /\ parent_header = 0
  /\ stdout_lock = 0
  /\ tpc = [t \in Threads |-> "out"]
  /\ save_parent = [t \in Threads |-> 0]
  /\ enters = [t \in Threads |-> 0]

----------------------------------------------------------------------------
\* FitMultinest: the constructor and the steps of run

\* FitMultinest(spectrum, priors, model_star, likelihood)
Construct ==
  /\ ctor = "pending"
  /\ IF InitRaises(arg_priors, model_parameters)
     THEN /\ ctor' = "ValueError"
          /\ obj' = obj
     ELSE /\ ctor' = "ok"
          /\ obj' = NewObject(arg_priors, model_parameters, arg_likelihood)
  /\ UNCHANGED <<model_parameters, arg_priors, arg_likelihood, files, pc, outcome,
                 runs, no_plots, runLog, handed, pre>>
  /\ UNCHANGED <<ptVars, lkVars, thVars>>

\* run(no_plots=np): the arguments of pymultinest.run are evaluated, then it is called
RunCall(np) ==
  /\ ctor = "ok"
  /\ pc = "idle"
  /\ runs < MaxRuns
  /\ runs' = runs + 1
  /\ no_plots' = np
  /\ pre' = obj
  /\ IF obj.likelihood.kind = "Absent"
     THEN /\ pc' = "idle"
          /\ outcome' = "AttributeError"
          /\ runLog' = <<>>
          /\ handed' = "none"
     ELSE /\ pc' = "engine"
          /\ outcome' = "running"
          /\ runLog' = <<"engine">>
          /\ handed' = obj.likelihood.kind
  /\ UNCHANGED <<model_parameters, arg_priors, arg_likelihood, ctor, obj, files>>
  /\ UNCHANGED <<ptVars, lkVars, thVars>>

\* pymultinest.run returns, having written (or not) the statistics file
EngineReturn(stats) ==
  /\ pc = "engine"
  /\ files' = [files EXCEPT !.stats = stats]
  /\ pc' = "dump"
  /\ UNCHANGED <<model_parameters, arg_priors, arg_likelihood, ctor, obj, outcome,
                 runs, no_plots, runLog, handed, pre>>
  /\ UNCHANGED <<ptVars, lkVars, thVars>>

\* pymultinest.run raises; nothing in run catches it
EngineRaise ==
  /\ pc = "engine"
  /\ pc' = "idle"
  /\ outcome' = "EngineError"
  /\ UNCHANGED <<model_parameters, arg_priors, arg_likelihood, ctor, obj, files,
                 runs, no_plots, runLog, handed, pre>>
  /\ UNCHANGED <<ptVars, lkVars, thVars>>

\* json.dump(self.parameter_names, open(basename+'params.json', 'w'))
DumpParams ==
  /\ pc = "dump"
  /\ files' = [files EXCEPT !.params = <<obj.parameter_names>>]
  /\ runLog' = Append(runLog, "params")
  /\ pc' = "analyze"
  /\ UNCHANGED <<model_parameters, arg_priors, arg_likelihood, ctor, obj, outcome,
                 runs, no_plots, handed, pre>>
  /\ UNCHANGED <<ptVars, lkVars, thVars>>

\* self.analyzer = Analyzer(...); if os.path.exists(basename+'stats.dat')
AnalyzeAndCheck ==
  /\ pc = "analyze"
  /\ obj' = [obj EXCEPT !.analyzer = Val(<<obj.n_params>>)]
  /\ runLog' = Append(runLog, "check")
  /\ IF files.stats # <<>>
     THEN /\ pc' = "summarize"
          /\ outcome' = outcome
     ELSE /\ pc' = "idle"
          /\ outcome' = "returned"
  /\ UNCHANGED <<model_parameters, arg_priors, arg_likelihood, ctor, files,
                 runs, no_plots, handed, pre>>
  /\ UNCHANGED <<ptVars, lkVars, thVars>>

\* the body of the if: get_stats and the attribute assignments
SummarizeStep ==
  /\ pc = "summarize"
  /\ LET r == Summarize(obj, files.stats[1])
     IN /\ obj' = r.obj
        /\ IF r.exc # "none"
           THEN /\ pc' = "idle"
                /\ outcome' = r.exc
           ELSE IF no_plots
                THEN /\ pc' = "idle"
                     /\ outcome' = "returned"
                ELSE /\ pc' = "plots"
                     /\ outcome' = outcome
  /\ runLog' = Append(runLog, "summarize")
  /\ UNCHANGED <<model_parameters, arg_priors, arg_likelihood, ctor, files,
                 runs, no_plots, handed, pre>>
  /\ UNCHANGED <<ptVars, lkVars, thVars>>

\* the plotting block, which calls external libraries and mkplots
Plots(ok) ==
  /\ pc = "plots"
  /\ pc' = "idle"
  /\ outcome' = IF ok THEN "returned" ELSE "PlotError"
  /\ UNCHANGED <<model_parameters, arg_priors, arg_likelihood, ctor, obj, files,
                 runs, no_plots, runLog, handed, pre>>
  /\ UNCHANGED <<ptVars, lkVars, thVars>>

----------------------------------------------------------------------------
\* PriorCollections.prior_transform

\* OrderedDict.values()
Values(priors) == [i \in 1..Len(priors) |-> priors[i].prior]

\* for i in xrange(nparam): cube[i] = values[i](cube[i])    (i counts from 0)
RECURSIVE TransformLoop(_, _, _, _)
TransformLoop(values, c, i, nparam) ==
  IF i >= nparam THEN [cube |-> c, exc |-> "none"]
  ELSE IF i >= Len(values) \/ i >= Len(c) THEN [cube |-> c, exc |-> "IndexError"]
  ELSE TransformLoop(values, [c EXCEPT ![i + 1] = PriorCall(values[i + 1], c[i + 1])],
                     i + 1, nparam)

\* a transform that rejects a cube whose length differs from the number of priors
prior_transform_checked(priors, c, ndim, nparam) ==
  IF Len(c) # Len(priors) THEN [cube |-> c, exc |-> "IndexError"]
  ELSE TransformLoop(Values(priors), c, 0, nparam)

prior_transform(priors, c, ndim, nparam) == TransformLoop(Values(priors), c, 0, nparam)

CubeValues == 0..CubeScale

\* the cubes a caller may pass: every length up to MaxCube
Cubes == UNION {[1..k -> CubeValues] : k \in 0..MaxCube}

\* a call self.priors.prior_transform(c, ndim, nparam) on a constructed object
PriorTransformCall(c, ndim, nparam) ==
  /\ ctor = "ok"
  /\ pt_exc = "nocall"
  /\ LET r == prior_transform(obj.priors, c, ndim, nparam)
     IN /\ cube' = r.cube
        /\ pt_exc' = r.exc
  /\ cubeIn' = c
  /\ pt_nparam' = nparam
  /\ UNCHANGED <<fitVars, lkVars, thVars>>

\* the caller reads the transformed cube and discards it before the next call
CubeConsumed ==
  /\ pt_exc # "nocall"
  /\ cubeIn' = <<>>
  /\ cube' = <<>>
  /\ pt_nparam' = 0
  /\ pt_exc' = "nocall"
  /\ UNCHANGED <<fitVars, lkVars, thVars>>

----------------------------------------------------------------------------
\* Likelihood.__call__

\* a term that forgets the square
ChiTermNotSquared(d, m, u) == [n |-> -(d - m), d |-> 2 * u]

\* one element of -0.5 * ((flux - m) / uncertainty)**2, as an exact fraction
ChiSquareTerm(d, m, u) == [n |-> -((d - m) * (d - m)), d |-> 2 * u * u]

FracAdd(x, y) == [n |-> x.n * y.d + y.n * x.d, d |-> x.d * y.d]

\* ndarray.sum() over the first k elements
RECURSIVE SumTerms(_, _, _, _)
SumTerms(flux, mflux, unc, k) ==
  IF k = 0 THEN [n |-> 0, d |-> 1]
  ELSE FracAdd(SumTerms(flux, mflux, unc, k - 1), ChiSquareTerm(flux[k], mflux[k], unc[k]))

LogLikelihood(flux, mflux, unc) == SumTerms(flux, mflux, unc, Len(flux))

FluxArrays == [1..NPoints -> 0..MaxFlux]
UncertaintyArrays == [1..NPoints -> 1..MaxUnc]

LkInit ==
  /\ lk_flux \in FluxArrays
  /\ lk_unc \in UncertaintyArrays
  /\ lk_model = <<>>
  /\ lk_ret = [n |-> 0, d |-> 1]

\* self.likelihood(model_param, ndim, nparam), model.evaluate returning flux m
LikelihoodCall(m) ==
  /\ lk_model' = m
  /\ lk_ret' = LogLikelihood(lk_flux, m, lk_unc)
  /\ UNCHANGED <<lk_flux, lk_unc>>
  /\ UNCHANGED <<fitVars, ptVars, thVars>>

----------------------------------------------------------------------------
\* set_stdout_parent, one step per statement

\* the parent each thread passes; 0 is the header before any thread entered
ParentOf(t) == t

\* save_parent = sys.stdout.parent_header
Enter(t) ==
  /\ tpc[t] = "out"
  /\ enters[t] < MaxEnters
  /\ save_parent' = [save_parent EXCEPT ![t] = parent_header]
  /\ tpc' = [tpc EXCEPT ![t] = "lock"]
  /\ UNCHANGED <<parent_header, stdout_lock, enters>>
  /\ UNCHANGED <<fitVars, ptVars, lkVars>>

\* with stdout_lock:
Acquire(t) ==
  /\ tpc[t] = "lock"
  /\ stdout_lock = 0
  /\ stdout_lock' = t
  /\ tpc' = [tpc EXCEPT ![t] = "set"]
  /\ UNCHANGED <<parent_header, save_parent, enters>>
  /\ UNCHANGED <<fitVars, ptVars, lkVars>>

\* sys.stdout.parent_header = parent
SetParent(t) ==
  /\ tpc[t] = "set"
  /\ parent_header' = ParentOf(t)
  /\ tpc' = [tpc EXCEPT ![t] = "body"]
  /\ UNCHANGED <<stdout_lock, save_parent, enters>>
  /\ UNCHANGED <<fitVars, ptVars, lkVars>>

\* yield: the body of the caller's with statement
Body(t) ==
  /\ tpc[t] = "body"
  /\ tpc' = [tpc EXCEPT ![t] = "finally"]
  /\ UNCHANGED <<parent_header, stdout_lock, save_parent, enters>>
  /\ UNCHANGED <<fitVars, ptVars, lkVars>>

\* sys.stdout.flush(); sys.stdout.parent_header = save_parent
Restore(t) ==
  /\ tpc[t] = "finally"
  /\ parent_header' = save_parent[t]
  /\ tpc' = [tpc EXCEPT ![t] = "release"]
  /\ UNCHANGED <<stdout_lock, save_parent, enters>>
  /\ UNCHANGED <<fitVars, ptVars, lkVars>>

\* leaving the with stdout_lock block
Release(t) ==
  /\ tpc[t] = "release"
  /\ stdout_lock' = 0
  /\ tpc' = [tpc EXCEPT ![t] = "out"]
  /\ enters' = [enters EXCEPT ![t] = enters[t] + 1]
  /\ UNCHANGED <<parent_header, save_parent>>
  /\ UNCHANGED <<fitVars, ptVars, lkVars>>

----------------------------------------------------------------------------
\* Specifications

\* a FitMultinest object: construction and calls of run
Init == FitInit /\ PtIdle /\ LkIdle /\ ThIdle

Next ==
  \/ Construct
  \/ \E np \in BOOLEAN : RunCall(np)
  \/ \E stats \in StatsFiles(obj.n_params) : EngineReturn(stats)
  \/ EngineRaise
  \/ DumpParams
  \/ AnalyzeAndCheck
  \/ SummarizeStep
  \/ \E ok \in BOOLEAN : Plots(ok)

Spec == Init /\ [][Next]_vars

\* construction followed by calls of prior_transform
InitTransform == FitInit /\ PtIdle /\ LkIdle /\ ThIdle

NextTransform ==
  \/ Construct
  \/ \E c \in Cubes, n \in 0..MaxCube : PriorTransformCall(c, n, n)
  \/ CubeConsumed

SpecTransform == InitTransform /\ [][NextTransform]_vars

\* calls of the default Likelihood on a bound spectrum
InitLikelihood == FitIdle /\ PtIdle /\ LkInit /\ ThIdle

NextLikelihood == \E m \in FluxArrays : LikelihoodCall(m)

SpecLikelihood == InitLikelihood /\ [][NextLikelihood]_vars

\* threads entering and leaving set_stdout_parent
InitStdout == FitIdle /\ PtIdle /\ LkIdle /\ ThIdle

NextStdout ==
  \/ \E t \in Threads : Enter(t)
  \/ \E t \in Threads : Acquire(t)
  \/ \E t \in Threads : SetParent(t)
  \/ \E t \in Threads : Body(t)
  \/ \E t \in Threads : Restore(t)
  \/ \E t \in Threads : Release(t)

SpecStdout == InitStdout /\ [][NextStdout]_vars

----------------------------------------------------------------------------
\* Properties

ResultUnset(o) ==
  Unset(o.mean) /\ Unset(o.sigma) /\ Unset(o.evidence) /\ Unset(o.sigma1) /\ Unset(o.sigma3)

ResultPopulated(o) ==
  /\ Populated(o.mean) /\ Populated(o.sigma) /\ Populated(o.evidence)
  /\ Populated(o.sigma1) /\ Populated(o.sigma3)

Logged(step) == \E i \in 1..Len(runLog) : runLog[i] = step

UnknownKey == \E i \in 1..Len(arg_priors) : arg_priors[i] \notin Range(model_parameters)

\* C1: whenever a call of run has ended after the engine returned and the
\* statistics file does not exist, the call returned normally and mean, sigma,
\* evidence, sigma1 and sigma3 are all unset (also on an object that already
\* completed an earlier run).
C1_MissingStatsLeavesResultUnset ==
  (ctor = "ok" /\ pc = "idle" /\ Logged("check") /\ files.stats = <<>>)
    => (outcome = "returned" /\ ResultUnset(obj))

\* C2: between calls of run the result fields and the analyzer handle are
\* either all populated or all unset.
C2_AllOrNothing ==
  (ctor = "ok" /\ pc = "idle")
    => \/ ResultPopulated(obj) /\ Populated(obj.analyzer)
       \/ ResultUnset(obj) /\ Unset(obj.analyzer)

\* C3: when the priors dict has a key that is not in model.parameters, the
\* constructor fails, no object exists and the engine is never invoked.
C3_UnknownKeyFailsConstructor ==
  (UnknownKey /\ ctor # "pending")
    => /\ ctor = "ValueError"
       /\ obj = NoObject
       /\ runs = 0
       /\ pc = "idle"
       /\ runLog = <<>>
       /\ handed = "none"

C3_Witness ==
  /\ ctor = "ValueError"
  /\ UnknownKey
  /\ \E i \in 1..Len(arg_priors) : arg_priors[i] \in Range(model_parameters)

PositionOf(k) == CHOOSE i \in 1..Len(model_parameters) : model_parameters[i] = k
RankOf(k) ==
  1 + Cardinality({k2 \in Range(arg_priors) : PositionOf(k2) < PositionOf(k)})

\* C5: for an object built from a priors dict in any iteration order, the
\* i-th prior of the collection and the i-th name bound by the Likelihood
\* belong to the i-th prior key by position in model.parameters, and a call
\* prior_transform(cube, n, n) leaves cube[i] = P_i(original cube[i]).
C5_TransformFollowsParameterOrder ==
  (ctor = "ok")
    => /\ obj.n_params = Len(arg_priors)
       /\ \A k \in Range(arg_priors) :
            /\ obj.priors[RankOf(k)].key = k
            /\ obj.priors[RankOf(k)].prior = PriorTable[k]
            /\ obj.likelihood.kind = "default" =>
                 obj.likelihood.parameter_names[RankOf(k)] = k
            /\ (pt_exc # "nocall" /\ pt_nparam = obj.n_params
                  /\ Len(cubeIn) = obj.n_params)
                 => /\ pt_exc = "none"
                    /\ cube[RankOf(k)] = PriorCall(PriorTable[k], cubeIn[RankOf(k)])

C5_Witness ==
  /\ ctor = "ok"
  /\ pt_exc = "none"
  /\ obj.n_params >= 3
  /\ pt_nparam = obj.n_params
  /\ Len(cubeIn) = obj.n_params
  /\ arg_priors # obj.parameter_names
  /\ obj.likelihood.kind = "default"
  /\ \A i \in 1..Len(cubeIn) : cubeIn[i] = 1

C7_FirstModeAndMarginals ==
  (/\ ctor = "ok" /\ pc = "idle" /\ Logged("summarize")
   /\ Len(files.stats[1].modes) >= 1
   /\ Len(files.stats[1].marginals) = obj.n_params)
    => LET s == files.stats[1]
       IN /\ obj.mean = Val(s.modes[1].mean)
          /\ obj.sigma = Val(s.modes[1].sigma)
          /\ obj.evidence = Val(<<s.evidence>>)
          /\ Populated(obj.sigma1) /\ Len(obj.sigma1.val) = obj.n_params
          /\ Populated(obj.sigma3) /\ Len(obj.sigma3.val) = obj.n_params
          /\ \A i \in 1..obj.n_params :
               /\ obj.sigma1.val[i] = s.marginals[i].s1
               /\ obj.sigma3.val[i] = s.marginals[i].s3

C7_Witness ==
  /\ ctor = "ok" /\ pc = "idle" /\ Logged("summarize")
  /\ Len(files.stats[1].modes) >= 2
  /\ Len(files.stats[1].marginals) = obj.n_params
  /\ obj.n_params >= 2
  /\ runs >= 2

\* C8: with the likelihood argument omitted and with a caller-supplied
\* likelihood alike, a call of run invokes the engine, handing it the default
\* Likelihood in the first case and the caller's object in the second.
C8_EngineGetsTheLikelihood ==
  (ctor = "ok" /\ runs > 0)
    => /\ Logged("engine")
       /\ handed = IF arg_likelihood = "None" THEN "default" ELSE "custom"

StepOrder == <<"engine", "params", "check", "summarize">>

\* C9: in each call of run the engine is invoked exactly once, then the
\* parameter-names file is written, then the statistics file is checked and
\* summarized, each at most once; when the engine raises, the call ends with
\* that error, the parameter-names file unwritten and the object unchanged.
C9_StepsInOrderEngineOnce ==
  (ctor = "ok" /\ runs > 0)
    => /\ Len(runLog) <= Len(StepOrder)
       /\ \A i \in 1..Len(runLog) : runLog[i] = StepOrder[i]
       /\ Cardinality({i \in 1..Len(runLog) : runLog[i] = "engine"}) = 1
       /\ outcome = "EngineError" =>
            (pc = "idle" /\ ~Logged("params") /\ obj = pre)

\* C10: at most one thread at a time is between setting parent_header and
\* restoring it, and once every thread has left the context parent_header
\* has the value it had before any thread entered.
C10_SerializedAndRestored ==
  /\ Cardinality({t \in Threads : tpc[t] \in {"body", "finally"}}) <= 1
  /\ (\A t \in Threads : tpc[t] = "out") => parent_header = 0

====
